---------------------------- MODULE Spec2Model ----------------------------
(***************************************************************************)
(* SparksFinance: the service layer of finance/services.py over the rows   *)
(* of finance/models.py.                                                   *)
(*                                                                         *)
(* Money is a whole number of cents (DecimalField, decimal_places=2).      *)
(* The store holds committed rows only: what a statement run inside        *)
(* db_transaction.atomic writes becomes visible to the other callers when  *)
(* the decorated function returns, so the locked section of                *)
(* transfer_money (lines 49-109, after the second select_for_update) is    *)
(* one step that ends with the commit.  select_for_update takes an         *)
(* exclusive row lock that is held until that commit; an UPDATE of a       *)
(* locked row by another caller waits for it.                              *)
(*                                                                         *)
(* A persistence fault is an exception raised by the call (save, create),  *)
(* the way the repository's test injects it                                *)
(* (tests.py 246: patch.object(BankAccount, 'save', side_effect=...)).     *)
(***************************************************************************)
EXTENDS Integers, Sequences, FiniteSets, TLC

\* ------------------------------------------------------------------ bounds
NAcct == 3          \* accounts in the store
NProc == 2          \* callers of the general specification
NConc == 3          \* callers of the concurrent-transfer specification
MaxCalls == 2       \* service calls made in the general specification, all callers together
MaxBal == 3         \* largest initial balance, in cents
MaxAmt == 2         \* largest requested amount, in cents
MaxDay == 1         \* days the clock may advance
NNew == 3           \* random parts beyond those of the stored account numbers
NGen == 3           \* account numbers generated before any is persisted
RetryLimit == 2     \* colliding candidates of one generate_account_number call that are counted
Scale == 4          \* units per cent in the sub-cent specification

DefaultDailyLimit == 10000000   \* Decimal('100000.00') in cents

Accts == 1..NAcct
Procs == 1..NProc
ConcProcs == 1..NConc
AllProcs == 1..(IF NConc > NProc THEN NConc ELSE NProc)
Amounts == (-1)..MaxAmt
Limits == {1, 2, DefaultDailyLimit}

Null == <<>>
Some(v) == <<v>>
None == [id |-> 0]

VARIABLES
    accounts,   \* bank_accounts rows: pk -> [balance, is_active, daily_transfer_limit]
    txns,       \* transactions rows, in commit order
    audit,      \* audit_logs rows, in commit order
    lock,       \* row lock of each account: the caller holding it, 0 when free
    day,        \* the current day (timezone.now() truncated to the day)
    pc,         \* each caller's position inside transfer_money
    obj,        \* each caller's in-memory BankAccount object
    tobj,       \* each caller's in-memory Transaction object
    rcv,        \* receiver argument of the caller's transfer_money call
    amt,        \* amount argument of the caller's transfer_money call
    ret,        \* what the caller's last service call returned
    budget,     \* service calls the caller may still make
    init,       \* the rows the accounts were created with
    generated,  \* account numbers generated and not yet persisted, in order
    candidates  \* colliding candidates drawn so far by the running generate_account_number call

vars == <<accounts, txns, audit, lock, day, pc, obj, tobj, rcv, amt, ret, budget, init,
          generated, candidates>>
store == <<accounts, txns, audit>>

\* ------------------------------------------------------- sums over rows
RECURSIVE SumAmount(_, _)
SumAmount(rows, S) ==
    IF S = {} THEN 0
    ELSE LET i == CHOOSE x \in S : TRUE
         IN rows[i].amount + SumAmount(rows, S \ {i})

RECURSIVE SumBalance(_, _)
SumBalance(rows, S) ==
    IF S = {} THEN 0
    ELSE LET a == CHOOSE x \in S : TRUE
         IN rows[a].balance + SumBalance(rows, S \ {a})

RECURSIVE SumBudget(_, _)
SumBudget(b, S) ==
    IF S = {} THEN 0
    ELSE LET p == CHOOSE x \in S : TRUE
         IN b[p] + SumBudget(b, S \ {p})

TotalBalance(rows) == SumBalance(rows, Accts)

\* ------------------------------------------------------------ BankAccount
has_sufficient_balance_Strict(balance, amount) == balance > amount

has_sufficient_balance(balance, amount) == balance >= amount

\* sent_transactions.filter(status='completed', created_at__gte=today_start)
TodayTransfers_AnyStatus(a) ==
    {i \in 1..Len(txns) : /\ txns[i].sender = a
                          /\ txns[i].created_at >= day}

TodayTransfers(a) ==
    {i \in 1..Len(txns) : /\ txns[i].sender = a
                          /\ txns[i].status = "completed"
                          /\ txns[i].created_at >= day}

get_daily_transfer_total(a) == SumAmount(txns, TodayTransfers(a))

ExceedsDailyLimit_OffByOne(daily_total, amount, limit) == daily_total + amount >= limit

ExceedsDailyLimit(daily_total, amount, limit) == daily_total + amount > limit

can_transfer_AmountFirst(o, amount, daily_total) ==
    IF amount <= 0 THEN "Transfer amount must be positive"
    ELSE IF ~o.is_active THEN "Account is not active"
    ELSE IF ~has_sufficient_balance(o.balance, amount) THEN "Insufficient balance"
    ELSE IF ExceedsDailyLimit(daily_total, amount, o.daily_transfer_limit)
         THEN "Daily transfer limit exceeded"
    ELSE "Transfer allowed"

can_transfer(o, amount, daily_total) ==
    IF ~o.is_active THEN "Account is not active"
    ELSE IF amount <= 0 THEN "Transfer amount must be positive"
    ELSE IF ~has_sufficient_balance(o.balance, amount) THEN "Insufficient balance"
    ELSE IF ExceedsDailyLimit(daily_total, amount, o.daily_transfer_limit)
         THEN "Daily transfer limit exceeded"
    ELSE "Transfer allowed"

\* ------------------------------------------------------- transfer_money
SameAccount(sender_pk, receiver_pk) == sender_pk = receiver_pk

InvalidAmount_ZeroAllowed(amount) == amount < 0

InvalidAmount(amount) == amount <= 0

\* lines 36-45, on the caller's in-memory sender object
Validation_AmountFirst(o, receiver_pk, amount, daily_total) ==
    IF InvalidAmount(amount) THEN "Transfer amount must be positive"
    ELSE IF SameAccount(o.id, receiver_pk) THEN "Cannot transfer money to the same account"
    ELSE can_transfer(o, amount, daily_total)

Validation(o, receiver_pk, amount, daily_total) ==
    IF SameAccount(o.id, receiver_pk) THEN "Cannot transfer money to the same account"
    ELSE IF InvalidAmount(amount) THEN "Transfer amount must be positive"
    ELSE can_transfer(o, amount, daily_total)

\* line 52, on the row read under lock
LockedBalanceTooLow_Skipped(balance, amount) == FALSE

LockedBalanceTooLow_Strict(balance, amount) == balance <= amount

LockedBalanceTooLow(balance, amount) == balance < amount

Debit(balance, amount) == balance - amount

Credit_Twice(balance, amount) == balance + amount + amount

Credit(balance, amount) == balance + amount

\* account.save() writes every field of the object to the row
SavedRow(o) == [balance |-> o.balance, is_active |-> o.is_active,
                daily_transfer_limit |-> o.daily_transfer_limit]

\* line 48: the sender is read again from the store, under the row lock
SenderUnderLock_NotReread(p) == SavedRow(obj[p])

SenderUnderLock(p) == accounts[obj[p].id]

\* where a persistence call of the locked section raises
Faults == {"none", "create", "sender_save", "receiver_save", "txn_save", "audit"}

Result(ok, message, t) == [ok |-> ok, message |-> message, txn |-> t]
NoResult == Result(FALSE, "", 0)

\* Transaction.save, models.py 222-228: "TXN" + the creation date + 8 random
\* hex digits. An id is the date and the random part.
TransactionId(date, random_part) == [date |-> date, random_part |-> random_part]

transaction_ids(rows) == {rows[i].transaction_id : i \in 1..Len(rows)}

\* a random part that no stored id of the date carries
UnusedRandomPart(rows, date) ==
    CHOOSE n \in 1..(Len(rows) + 1) :
        /\ TransactionId(date, n) \notin transaction_ids(rows)
        /\ \A m \in 1..(n - 1) : TransactionId(date, m) \in transaction_ids(rows)

\* uuid.uuid4().hex[:8]: only the equality of ids matters, so a draw is
\* either the random part of an id stored for the date or an unused one
RandomParts(rows, date) ==
    {id.random_part : id \in {i \in transaction_ids(rows) : i.date = date}}
        \cup {UnusedRandomPart(rows, date)}

\* transaction_id = CharField(unique=True), models.py 133-138: the INSERT
\* of an id that a stored record carries raises IntegrityError
UniqueViolation_NotEnforced(id, rows) == FALSE

UniqueViolation(id, rows) == id \in transaction_ids(rows)

\* Transaction.objects.create(..., status='pending', ...), lines 56-64
CreatedRow(tid, s, r, amount, sender_row, receiver_row) ==
    [transaction_id |-> tid,
     sender |-> s, receiver |-> r, amount |-> amount, status |-> "pending",
     created_at |-> day, completed_at |-> Null, failure_reason |-> "",
     sender_balance_before |-> Some(sender_row.balance),
     receiver_balance_before |-> Some(receiver_row.balance),
     sender_balance_after |-> Null, receiver_balance_after |-> Null]

\* the in-memory transaction_obj after lines 68-75
CompletedRow_StatusNotSet(tid, s, r, amount, sender_row, receiver_row) ==
    [CreatedRow(tid, s, r, amount, sender_row, receiver_row) EXCEPT
        !.sender_balance_after = Some(Debit(sender_row.balance, amount)),
        !.receiver_balance_after = Some(Credit(receiver_row.balance, amount)),
        !.completed_at = Some(day)]

CompletedRow_SnapshotBeforeDebit(tid, s, r, amount, sender_row, receiver_row) ==
    [CreatedRow(tid, s, r, amount, sender_row, receiver_row) EXCEPT
        !.sender_balance_after = Some(sender_row.balance),
        !.receiver_balance_after = Some(Credit(receiver_row.balance, amount)),
        !.status = "completed",
        !.completed_at = Some(day)]

CompletedRow(tid, s, r, amount, sender_row, receiver_row) ==
    [CreatedRow(tid, s, r, amount, sender_row, receiver_row) EXCEPT
        !.sender_balance_after = Some(Debit(sender_row.balance, amount)),
        !.receiver_balance_after = Some(Credit(receiver_row.balance, amount)),
        !.status = "completed",
        !.completed_at = Some(day)]

\* the in-memory transaction_obj after lines 100-101
FailedRow(tid, s, r, amount, sender_row, receiver_row) ==
    [CompletedRow(tid, s, r, amount, sender_row, receiver_row) EXCEPT
        !.status = "failed", !.failure_reason = "Test error"]

AuditRow(action, t, a) == [action |-> action, related_transaction |-> t, related_account |-> a]

\* AuditService.log_action, lines 202-231: the entry is created, or the
\* exception of a failing create is caught and None is returned
log_action_Overwrites(rows, entry, fails) ==
    [raised |-> FALSE, rows |-> IF fails THEN rows ELSE <<entry>>]

log_action_Raises(rows, entry, fails) ==
    [raised |-> fails, rows |-> IF fails THEN rows ELSE Append(rows, entry)]

log_action(rows, entry, fails) ==
    [raised |-> FALSE, rows |-> IF fails THEN rows ELSE Append(rows, entry)]

\* lines 52-56: the re-check returns before the Transaction record is created
RecordsOnRejection_CreatedFirst(rows, created) == Append(rows, created)

RecordsOnRejection(rows, created) == rows

TypeOK ==
    /\ \A a \in Accts : accounts[a].balance \in Int /\ accounts[a].is_active \in BOOLEAN
    /\ \A p \in AllProcs : pc[p] \in {"idle", "lock_sender", "lock_receiver"}
    /\ \A a \in Accts : lock[a] \in AllProcs \cup {0}
    /\ day \in 0..MaxDay

\* ------------------------------------------------------------------- Init
Row(b, l) == [balance |-> b, is_active |-> TRUE, daily_transfer_limit |-> l]

InitStore ==
    /\ txns = <<>>
    /\ audit = <<>>
    /\ lock = [a \in Accts |-> 0]
    /\ day = 0
    /\ pc = [p \in AllProcs |-> "idle"]
    /\ obj = [p \in AllProcs |-> None]
    /\ tobj = [p \in AllProcs |-> None]
    /\ ret = [p \in AllProcs |-> NoResult]
    /\ init = accounts
    /\ generated = <<>>
    /\ candidates = 0

\* the general specification: every service, every fault, MaxCalls calls
Init ==
    /\ accounts = [a \in Accts |-> IF a = 1 THEN Row(MaxBal - 1, 2)
                                   ELSE Row(a - 1, DefaultDailyLimit)]
    /\ budget \in [AllProcs -> 0..MaxCalls]
    /\ \A p \in AllProcs \ Procs : budget[p] = 0
    /\ \A p, q \in Procs : p < q => budget[p] >= budget[q]
    /\ SumBudget(budget, AllProcs) = MaxCalls
    /\ rcv = [p \in AllProcs |-> 0]
    /\ amt = [p \in AllProcs |-> 0]
    /\ InitStore

\* the concurrent-transfer specification (spec section 8, tests.py 262-287):
\* every caller makes one transfer_money call of the same amount from
\* account X to account Y, and no persistence call fails (no save raises
\* and no drawn transaction id is already stored)
X == 1
Y == 2

InitConc ==
    /\ \E b \in 0..MaxBal, l \in Limits :
         accounts = [a \in Accts |-> IF a = X THEN Row(b, l) ELSE Row(a - 1, DefaultDailyLimit)]
    /\ budget = [p \in AllProcs |-> IF p \in ConcProcs THEN 1 ELSE 0]
    /\ rcv = [p \in AllProcs |-> Y]
    /\ \E a \in 1..MaxAmt : amt = [p \in AllProcs |-> a]
    /\ InitStore

\* ---------------------------------------------------------------- actions
Idle(p) == pc[p] = "idle"

\* the caller reads an account from the store (BankAccount.objects.get)
Fetch(p, a) ==
    /\ Idle(p)
    /\ budget[p] > 0
    /\ obj[p] = None
    /\ obj' = [obj EXCEPT ![p] = [id |-> a, balance |-> accounts[a].balance,
                                  is_active |-> accounts[a].is_active,
                                  daily_transfer_limit |-> accounts[a].daily_transfer_limit]]
    /\ UNCHANGED <<accounts, txns, audit, lock, day, pc, tobj, rcv, amt, ret, budget, init, generated, candidates>>

\* transfer_money lines 34-45: validation on the caller's objects
Validate(p, r, amount) ==
    /\ Idle(p)
    /\ budget[p] > 0
    /\ obj[p] # None
    /\ budget' = [budget EXCEPT ![p] = @ - 1]
    /\ rcv' = [rcv EXCEPT ![p] = r]
    /\ amt' = [amt EXCEPT ![p] = amount]
    /\ LET msg == Validation(obj[p], r, amount, get_daily_transfer_total(obj[p].id))
       IN IF msg = "Transfer allowed"
          THEN /\ pc' = [pc EXCEPT ![p] = "lock_sender"]
               /\ ret' = [ret EXCEPT ![p] = NoResult]
               /\ obj' = obj
          ELSE /\ pc' = pc
               /\ ret' = [ret EXCEPT ![p] = Result(FALSE, msg, 0)]
               /\ obj' = [obj EXCEPT ![p] = None]
    /\ UNCHANGED <<accounts, txns, audit, lock, day, tobj, init, generated, candidates>>

\* line 48: select_for_update on the sender row
LockSender(p) ==
    /\ pc[p] = "lock_sender"
    /\ lock[obj[p].id] = 0
    /\ lock' = [lock EXCEPT ![obj[p].id] = p]
    /\ pc' = [pc EXCEPT ![p] = "lock_receiver"]
    /\ UNCHANGED <<accounts, txns, audit, day, obj, tobj, rcv, amt, ret, budget, init, generated, candidates>>

\* lines 49-109: select_for_update on the receiver row, the re-check, the
\* transfer and the commit that releases both locks.  fault names the
\* persistence call that raises; handler_fails says that the
\* transaction_obj.save() of the except block (line 102) raises too.
Execute(p, random_part, fault, handler_fails) ==
    /\ pc[p] = "lock_receiver"
    /\ lock[rcv[p]] = 0
    /\ LET tid == TransactionId(day, random_part)
           s == obj[p].id
           r == rcv[p]
           amount == amt[p]
           sender_row == SenderUnderLock(p)
           receiver_row == accounts[r]
           debited == [sender_row EXCEPT !.balance = Debit(sender_row.balance, amount)]
           credited == [receiver_row EXCEPT !.balance = Credit(receiver_row.balance, amount)]
           completed == CompletedRow(tid, s, r, amount, sender_row, receiver_row)
           left == IF handler_fails THEN CreatedRow(tid, s, r, amount, sender_row, receiver_row)
                   ELSE FailedRow(tid, s, r, amount, sender_row, receiver_row)
           logged == log_action(audit, AuditRow("transaction_completed", Len(txns) + 1, 0),
                                fault = "audit")
       IN IF LockedBalanceTooLow(sender_row.balance, amount)
          THEN /\ ret' = [ret EXCEPT ![p] = Result(FALSE, "Insufficient balance", 0)]
               /\ txns' = RecordsOnRejection(txns, CreatedRow(tid, s, r, amount, sender_row, receiver_row))
               /\ UNCHANGED <<accounts, audit>>
          ELSE CASE fault = "create" \/ UniqueViolation(tid, txns) ->
                    /\ ret' = [ret EXCEPT ![p] = Result(FALSE, "Transfer failed", 0)]
                    /\ UNCHANGED <<accounts, txns, audit>>
                 [] fault = "sender_save" ->
                    /\ ret' = [ret EXCEPT ![p] = Result(FALSE, "Transfer failed", 0)]
                    /\ txns' = Append(txns, left)
                    /\ UNCHANGED <<accounts, audit>>
                 [] fault = "receiver_save" ->
                    /\ ret' = [ret EXCEPT ![p] = Result(FALSE, "Transfer failed", 0)]
                    /\ accounts' = [accounts EXCEPT ![s] = debited]
                    /\ txns' = Append(txns, left)
                    /\ UNCHANGED audit
                 [] fault = "txn_save" \/ logged.raised ->
                    /\ ret' = [ret EXCEPT ![p] = Result(FALSE, "Transfer failed", 0)]
                    /\ accounts' = [accounts EXCEPT ![s] = debited, ![r] = credited]
                    /\ txns' = Append(txns, left)
                    /\ UNCHANGED audit
                 [] OTHER ->
                    /\ ret' = [ret EXCEPT ![p] = Result(TRUE, "Transfer successful", Len(txns) + 1)]
                    /\ accounts' = [accounts EXCEPT ![s] = debited, ![r] = credited]
                    /\ txns' = Append(txns, completed)
                    /\ audit' = logged.rows
    /\ lock' = [a \in Accts |-> IF lock[a] = p THEN 0 ELSE lock[a]]
    /\ pc' = [pc EXCEPT ![p] = "idle"]
    /\ obj' = [obj EXCEPT ![p] = None]
    /\ UNCHANGED <<day, tobj, rcv, amt, budget, init, generated, candidates>>

\* ------------------------------------------------------- AccountService
AccountFaults == {"none", "save", "audit"}

\* the caller's object after line 285 / line 316
Deactivated(o) == [o EXCEPT !.is_active = FALSE]
WithLimit(o, new_limit) == [o EXCEPT !.daily_transfer_limit = new_limit]

\* the body shared by deactivate_account (284-300) and update_daily_limit
\* (314-331): save the changed object, then record the audit entry
SaveAccount(p, changed, fault, done, failed) ==
    /\ Idle(p)
    /\ budget[p] > 0
    /\ obj[p] # None
    /\ lock[obj[p].id] = 0
    /\ budget' = [budget EXCEPT ![p] = @ - 1]
    /\ obj' = [obj EXCEPT ![p] = None]
    /\ LET logged == log_action(audit, AuditRow("account_updated", 0, changed.id),
                                fault = "audit")
       IN IF fault = "save"
          THEN /\ ret' = [ret EXCEPT ![p] = Result(FALSE, failed, 0)]
               /\ UNCHANGED <<accounts, audit>>
          ELSE /\ ret' = [ret EXCEPT ![p] = Result(~logged.raised,
                                                   IF logged.raised THEN failed ELSE done, 0)]
               /\ accounts' = [accounts EXCEPT ![changed.id] = SavedRow(changed)]
               /\ audit' = logged.rows
    /\ UNCHANGED <<txns, lock, day, pc, tobj, rcv, amt, init, generated, candidates>>

deactivate_account(p, fault) ==
    SaveAccount(p, Deactivated(obj[p]), fault,
                "Account deactivated successfully", "Failed to deactivate account")

update_daily_limit(p, new_limit, fault) ==
    SaveAccount(p, WithLimit(obj[p], new_limit), fault,
                "Daily limit updated successfully", "Failed to update daily limit")

\* ---------------------------------------------------- cancel_transaction
Reasons == {"", "requested"}

\* the caller reads a transaction from the store
FetchTxn(p, i) ==
    /\ Idle(p)
    /\ budget[p] > 0
    /\ tobj[p] = None
    /\ i \in 1..Len(txns)
    /\ tobj' = [tobj EXCEPT ![p] = [id |-> i, row |-> txns[i]]]
    /\ UNCHANGED <<accounts, txns, audit, lock, day, pc, obj, rcv, amt, ret, budget, init, generated, candidates>>

\* the caller's object after lines 170-171
Cancelled_ReasonDropped(row, reason) == [row EXCEPT !.status = "cancelled"]

Cancelled(row, reason) == [row EXCEPT !.status = "cancelled", !.failure_reason = reason]

\* line 166, on the caller's in-memory transaction object
NotCancellable_Never(status) == FALSE

NotCancellable_CompletedAllowed(status) == status \notin {"pending", "completed"}

NotCancellable(status) == status # "pending"

\* lines 166-179, on the caller's in-memory transaction object
cancel_transaction(p, reason, save_fails) ==
    /\ Idle(p)
    /\ budget[p] > 0
    /\ tobj[p] # None
    /\ budget' = [budget EXCEPT ![p] = @ - 1]
    /\ tobj' = [tobj EXCEPT ![p] = None]
    /\ IF NotCancellable(tobj[p].row.status)
       THEN /\ ret' = [ret EXCEPT ![p] =
                        Result(FALSE, "Only pending transactions can be cancelled", 0)]
            /\ txns' = txns
       ELSE IF save_fails
       THEN /\ ret' = [ret EXCEPT ![p] = Result(FALSE, "Failed to cancel transaction", 0)]
            /\ txns' = txns
       ELSE /\ ret' = [ret EXCEPT ![p] = Result(TRUE, "Transaction cancelled successfully", 0)]
            /\ txns' = [txns EXCEPT ![tobj[p].id] = Cancelled(tobj[p].row, reason)]
    /\ UNCHANGED <<accounts, audit, lock, day, pc, obj, rcv, amt, init, generated, candidates>>

NextDay ==
    /\ day < MaxDay
    /\ day' = day + 1
    /\ UNCHANGED <<accounts, txns, audit, lock, pc, obj, tobj, rcv, amt, ret, budget, init, generated, candidates>>

Next ==
    \/ \E p \in Procs, a \in Accts : Fetch(p, a)
    \/ \E p \in Procs, r \in Accts, amount \in Amounts : Validate(p, r, amount)
    \/ \E p \in Procs : LockSender(p)
    \/ \E p \in Procs, random_part \in RandomParts(txns, day), fault \in Faults, hf \in BOOLEAN :
          Execute(p, random_part, fault, hf)
    \/ \E p \in Procs, fault \in AccountFaults : deactivate_account(p, fault)
    \/ \E p \in Procs, l \in Limits, fault \in AccountFaults : update_daily_limit(p, l, fault)
    \/ \E p \in Procs, i \in 1..MaxCalls : FetchTxn(p, i)
    \/ \E p \in Procs, reason \in Reasons, sf \in BOOLEAN : cancel_transaction(p, reason, sf)
    \/ NextDay

Spec == Init /\ [][Next]_vars

\* the general specification with the scheduling the code relies on: the
\* database grants a free row lock to a caller waiting in select_for_update
\* (lines 48-49), and a caller holding both locks runs to its return
SpecFair ==
    /\ Spec
    /\ \A p \in Procs :
          /\ WF_vars(LockSender(p))
          /\ WF_vars(\E random_part \in RandomParts(txns, day), fault \in Faults,
                        hf \in BOOLEAN : Execute(p, random_part, fault, hf))

NextConc ==
    \/ \E p \in ConcProcs : Fetch(p, X)
    \/ \E p \in ConcProcs : Validate(p, rcv[p], amt[p])
    \/ \E p \in ConcProcs : LockSender(p)
    \/ \E p \in ConcProcs : Execute(p, UnusedRandomPart(txns, day), "none", FALSE)

SpecConc == InitConc /\ [][NextConc]_vars

\* ------------------------------------------------- sub-cent amounts
\* The sub-cent specification counts money in units of 1/Scale cent, so
\* that an amount can carry more than 2 fractional digits.
\*
\* DecimalField(max_digits=12, decimal_places=2): the value written to the
\* column is the decimal quantized to 2 places, halves to the even cent
to_db(v) ==
    LET q == v \div Scale
        r == v % Scale
    IN IF 2 * r < Scale THEN q * Scale
       ELSE IF 2 * r > Scale THEN (q + 1) * Scale
       ELSE IF q % 2 = 0 THEN q * Scale
       ELSE (q + 1) * Scale

\* the transactions row written by transaction_obj.save(), line 80
StoredTransaction(row) ==
    [row EXCEPT !.amount = to_db(@),
                !.sender_balance_before = Some(to_db(@[1])),
                !.receiver_balance_before = Some(to_db(@[1])),
                !.sender_balance_after = Some(to_db(@[1])),
                !.receiver_balance_after = Some(to_db(@[1]))]

\* the amounts of the sub-cent specification: positive, up to MaxAmt cents
SubCentAmounts == 1..(MaxAmt * Scale)

\* one caller, accounts holding whole cents
InitSubCent ==
    /\ \E b \in 0..MaxBal :
         accounts = [a \in Accts |->
                        IF a = X THEN Row(b * Scale, DefaultDailyLimit * Scale)
                        ELSE Row((a - 1) * Scale, DefaultDailyLimit * Scale)]
    /\ budget = [p \in AllProcs |-> IF p = 1 THEN MaxCalls ELSE 0]
    /\ rcv = [p \in AllProcs |-> 0]
    /\ amt = [p \in AllProcs |-> 0]
    /\ InitStore

\* transfer_money lines 48-96 when no persistence call fails, with the
\* values of the decimal columns as the store keeps them
ExecuteSubCent(p) ==
    /\ pc[p] = "lock_receiver"
    /\ lock[rcv[p]] = 0
    /\ LET tid == TransactionId(day, UnusedRandomPart(txns, day))
           s == obj[p].id
           r == rcv[p]
           amount == amt[p]
           sender_row == SenderUnderLock(p)
           receiver_row == accounts[r]
           debited == [sender_row EXCEPT
                          !.balance = to_db(Debit(sender_row.balance, amount))]
           credited == [receiver_row EXCEPT
                          !.balance = to_db(Credit(receiver_row.balance, amount))]
           completed == CompletedRow(tid, s, r, amount, sender_row, receiver_row)
           logged == log_action(audit, AuditRow("transaction_completed", Len(txns) + 1, 0),
                                FALSE)
       IN IF LockedBalanceTooLow(sender_row.balance, amount)
          THEN /\ ret' = [ret EXCEPT ![p] = Result(FALSE, "Insufficient balance", 0)]
               /\ UNCHANGED <<accounts, txns, audit>>
          ELSE /\ ret' = [ret EXCEPT ![p] = Result(TRUE, "Transfer successful", Len(txns) + 1)]
               /\ accounts' = [accounts EXCEPT ![s] = debited, ![r] = credited]
               /\ txns' = Append(txns, StoredTransaction(completed))
               /\ audit' = logged.rows
    /\ lock' = [a \in Accts |-> IF lock[a] = p THEN 0 ELSE lock[a]]
    /\ pc' = [pc EXCEPT ![p] = "idle"]
    /\ obj' = [obj EXCEPT ![p] = None]
    /\ UNCHANGED <<day, tobj, rcv, amt, budget, init, generated, candidates>>

NextSubCent ==
    \/ \E a \in Accts : Fetch(1, a)
    \/ \E r \in Accts, amount \in SubCentAmounts : Validate(1, r, amount)
    \/ LockSender(1)
    \/ ExecuteSubCent(1)

SpecSubCent == InitSubCent /\ [][NextSubCent]_vars

\* ----------------------------------------------- get_account_statement
\* line 5, "from django.db import transaction as db_transaction": the names
\* of the module django.db.transaction. Q is a name of django.db.models
\* (views.py imports it from there) and is not among them.
db_transaction ==
    {"atomic", "non_atomic_requests", "commit", "rollback", "savepoint",
     "savepoint_commit", "savepoint_rollback", "clean_savepoints", "on_commit",
     "get_autocommit", "set_autocommit", "get_rollback", "set_rollback",
     "get_connection", "mark_for_rollback_on_error", "Atomic",
     "TransactionManagementError"}

DateBounds == {Null} \cup {Some(d) : d \in 0..MaxDay}

\* lines 124-132: the completed transactions of the account inside the
\* optional bounds
StatementTransactions(account, date_from, date_to) ==
    {i \in 1..Len(txns) :
        /\ txns[i].sender = account.id \/ txns[i].receiver = account.id
        /\ txns[i].status = "completed"
        /\ date_from # Null => txns[i].created_at >= date_from[1]
        /\ date_to # Null => txns[i].created_at <= date_to[1]}

\* lines 124-152, on the caller's account object: line 125 looks up
\* db_transaction.Q before any query is built, and a missing name raises
\* AttributeError out of the function
get_account_statement(account, date_from, date_to) ==
    IF "Q" \notin db_transaction
    THEN [raised |-> "AttributeError"]
    ELSE LET transactions == StatementTransactions(account, date_from, date_to)
             sent_total == SumAmount(txns, {i \in transactions : txns[i].sender = account.id})
             received_total ==
                 SumAmount(txns, {i \in transactions : txns[i].receiver = account.id})
         IN [raised |-> "",
             account |-> account,
             transactions |-> transactions,
             sent_total |-> sent_total,
             received_total |-> received_total,
             net_change |-> received_total - sent_total,
             opening_balance |-> account.balance - (received_total - sent_total),
             closing_balance |-> account.balance,
             date_from |-> date_from,
             date_to |-> date_to]

\* ------------------------------------------- generate_account_number
\* "SPF" + yymmdd + 8 random digits, line 266
AccountNumber(date, random_part) == [date |-> date, random_part |-> random_part]

RandomDigits == 1..(NAcct + NNew)

\* bank_accounts.account_number of the stored accounts, created on day 0
account_number(a) == AccountNumber(0, a)

\* BankAccount.objects.filter(account_number=account_number).exists(), line 269
AccountNumberExists(number) == \E a \in Accts : account_number(a) = number

\* lines 262-270: the loop draws until a number passes the check of line
\* 269, which reads the store only; the number is returned to the caller
\* (forms.py 122-126) and is not persisted by the call
generate_account_number(random_part) ==
    /\ Len(generated) < NGen
    /\ ~AccountNumberExists(AccountNumber(day, random_part))
    /\ generated' = Append(generated, AccountNumber(day, random_part))
    /\ UNCHANGED <<accounts, txns, audit, lock, day, pc, obj, tobj, rcv, amt, ret, budget, init, candidates>>

\* the number-generation specification: account numbers are generated,
\* by any callers in any order, and none of them is persisted
NextGen ==
    \/ \E random_part \in RandomDigits : generate_account_number(random_part)
    \/ NextDay

SpecGen == Init /\ [][NextGen]_vars

\* the colliding candidates of one call that the model counts
MaxCandidates == RetryLimit + 1

\* one pass of the while True loop, lines 263-270: a candidate is built from
\* the current date and a random part; when the store holds it the loop goes
\* round again, otherwise the call returns it. Nothing in the loop counts
\* the passes or ends it.
DrawCandidate(random_part) ==
    /\ Len(generated) < NGen
    /\ IF AccountNumberExists(AccountNumber(day, random_part))
       THEN /\ candidates < MaxCandidates
            /\ candidates' = candidates + 1
            /\ generated' = generated
       ELSE /\ candidates' = 0
            /\ generated' = Append(generated, AccountNumber(day, random_part))
    /\ UNCHANGED <<accounts, txns, audit, lock, day, pc, obj, tobj, rcv, amt, ret, budget, init>>

\* the loop specification: generate_account_number calls run pass by pass
NextLoop ==
    \/ \E random_part \in RandomDigits : DrawCandidate(random_part)
    \/ NextDay

SpecLoop == Init /\ [][NextLoop]_vars

\* ------------------------------------------------------------- properties
Completed == {i \in 1..Len(txns) : txns[i].status = "completed"}

\* the step in which caller p's transfer_money call leaves the locked section
Returns(p) == pc[p] = "lock_receiver" /\ pc'[p] = "idle"

\* C1: in every reachable state the stored balance of every account is >= 0,
\* whatever the interleaving of transfers, cancellations, deactivations and
\* limit updates.
C1_BalanceNeverNegative == \A a \in Accts : accounts[a].balance >= 0

\* a caller that passed validation holds the sender's lock while the stored
\* balance, lowered by a completed transfer, no longer covers its amount
C1_Witness ==
    \E p \in Procs :
        /\ pc[p] = "lock_receiver"
        /\ accounts[obj[p].id].balance < amt[p]
        /\ \E i \in Completed : txns[i].sender = obj[p].id

\* C2: a transfer_money call that reports success lowers the sender's stored
\* balance by exactly the amount, raises the receiver's by exactly the amount
\* and leaves the sum of all stored balances unchanged.
C2_SuccessMovesExactlyAmount ==
    [][\A p \in AllProcs :
          (Returns(p) /\ ret'[p].ok) =>
              /\ accounts'[obj[p].id].balance = accounts[obj[p].id].balance - amt[p]
              /\ accounts'[rcv[p]].balance = accounts[rcv[p]].balance + amt[p]
              /\ TotalBalance(accounts') = TotalBalance(accounts)]_vars

C2_Witness ==
    \E p \in Procs :
        /\ ret[p] = Result(TRUE, "Transfer successful", Len(txns))
        /\ Len(txns) > 0
        /\ txns[Len(txns)].status = "completed"
        /\ accounts[txns[Len(txns)].receiver].balance
             = init[txns[Len(txns)].receiver].balance + txns[Len(txns)].amount

\* C3: when a persistence step fails after the Transaction record was
\* created, the stored balances of sender and receiver are what they were
\* before the call, whichever save failed.
C3_FailureLeavesBalances ==
    [][\A p \in AllProcs :
          (Returns(p) /\ ret'[p].message = "Transfer failed" /\ Len(txns') > Len(txns)) =>
              /\ accounts'[obj[p].id].balance = accounts[obj[p].id].balance
              /\ accounts'[rcv[p]].balance = accounts[rcv[p]].balance]_vars

\* every caller of the concurrent-transfer specification has returned
AllReturned == \A p \in ConcProcs : budget[p] = 0 /\ pc[p] = "idle"
ScenarioAmount == amt[1]
Successes == {p \in ConcProcs : ret[p].ok}

\* C4: K concurrent transfers of the same amount a from X (initial balance B,
\* daily limit not binding) to Y, with K >= floor(B/a), end with exactly
\* floor(B/a) completed transactions and a balance of B - a*floor(B/a) on X.
C4_ExactlyFloorCompleted ==
    LET B == init[X].balance
        a == ScenarioAmount
    IN (/\ AllReturned
        /\ init[X].daily_transfer_limit >= B
        /\ NConc >= B \div a)
       => /\ Cardinality(Completed) = B \div a
          /\ accounts[X].balance = B - a * (B \div a)

\* some of the calls complete and the rest are turned away
C4_Witness ==
    /\ AllReturned
    /\ init[X].daily_transfer_limit >= init[X].balance
    /\ NConc > init[X].balance \div ScenarioAmount
    /\ init[X].balance \div ScenarioAmount >= 2
    /\ Cardinality(Completed) = init[X].balance \div ScenarioAmount
    /\ \E p \in ConcProcs : ret[p] = Result(FALSE, "Insufficient balance", 0)

\* C5: for every account whose daily limit L was not changed, the amounts of
\* its completed transactions sent on the current day sum to at most L.
C5_DailyTotalWithinLimit ==
    \A a \in Accts :
        accounts[a].daily_transfer_limit = init[a].daily_transfer_limit
            => get_daily_transfer_total(a) <= accounts[a].daily_transfer_limit

\* C6: two concurrent transfers never each hold one account's row lock while
\* waiting for the lock the other holds.
C6_NoCircularWait ==
    ~ \E p, q \in AllProcs :
          /\ p # q
          /\ pc[p] = "lock_receiver" /\ lock[obj[p].id] = p /\ lock[rcv[p]] = q
          /\ pc[q] = "lock_receiver" /\ lock[obj[q].id] = q /\ lock[rcv[q]] = p

\* C7: once the concurrent transfers from one sender have returned, the
\* sender's stored balance is its initial balance minus the amount times the
\* number of calls that reported success, and the receiver's is its initial
\* balance plus that total.
C7_NoLostUpdate ==
    (\A p \in ConcProcs : pc[p] = "idle")
        => /\ accounts[X].balance
                = init[X].balance - ScenarioAmount * Cardinality(Successes)
           /\ accounts[Y].balance
                = init[Y].balance + ScenarioAmount * Cardinality(Successes)

C7_Witness ==
    /\ AllReturned
    /\ Cardinality(Successes) >= 2
    /\ accounts[X].balance = init[X].balance - ScenarioAmount * Cardinality(Successes)

\* the case of C8 for a call transfer_money(obj[p], r, a): the caller's
\* object is what the store holds, the sender is active and covers a, and
\* the receiver is another, active account
C8_Case(p, r, a) ==
    /\ obj[p] # None
    /\ SavedRow(obj[p]) = accounts[obj[p].id]
    /\ obj[p].is_active
    /\ a > 0
    /\ obj[p].balance >= a
    /\ r # obj[p].id
    /\ accounts[r].is_active

\* C8: for such a call, with S the sender's completed same-day total and L
\* its daily limit: S + a > L is rejected with the daily-limit error and
\* changes nothing; S + a <= L (S + a = L included) is accepted and succeeds.
C8_DailyLimitBoundary ==
    [][\A p \in AllProcs :
          LET S == get_daily_transfer_total(obj[p].id)
              L == obj[p].daily_transfer_limit
          IN /\ \A r \in Accts, a \in Amounts :
                   (Validate(p, r, a) /\ C8_Case(p, r, a)) =>
                       IF S + a > L
                       THEN /\ ret'[p] = Result(FALSE, "Daily transfer limit exceeded", 0)
                            /\ pc'[p] = "idle"
                            /\ UNCHANGED store
                       ELSE pc'[p] = "lock_sender"
             /\ (Returns(p) /\ C8_Case(p, rcv[p], amt[p])
                            /\ S + amt[p] <= accounts[obj[p].id].daily_transfer_limit) =>
                   /\ ret'[p].ok
                   /\ accounts'[obj[p].id].balance = accounts[obj[p].id].balance - amt[p]]_vars

\* the limit was reached exactly by completed transfers, and a further
\* transfer was refused
C8_Witness ==
    /\ Completed # {}
    /\ get_daily_transfer_total(X) = accounts[X].daily_transfer_limit
    /\ accounts[X].balance >= ScenarioAmount
    /\ \E p \in ConcProcs : ret[p] = Result(FALSE, "Daily transfer limit exceeded", 0)

\* C9: transfer_money with the sender as the receiver fails with the
\* same-account error for every amount and every account state, changes no
\* balance and creates no transaction record.
C9_SameAccountAlwaysRefused ==
    [][\A p \in AllProcs, a \in Amounts :
          Validate(p, obj[p].id, a) =>
              /\ ret'[p] = Result(FALSE, "Cannot transfer money to the same account", 0)
              /\ pc'[p] = "idle"
              /\ UNCHANGED store]_vars

\* refused for a deactivated account and a non-positive amount
C9_Witness ==
    \E p \in Procs :
        /\ ret[p] = Result(FALSE, "Cannot transfer money to the same account", 0)
        /\ amt[p] <= 0
        /\ ~accounts[rcv[p]].is_active

\* C10: transfer_money between two distinct accounts with amount <= 0 (zero
\* included) fails with the must-be-positive error, changes no balance and
\* creates no transaction record.
C10_NonPositiveAmountRefused ==
    [][\A p \in AllProcs, r \in Accts, a \in Amounts :
          (Validate(p, r, a) /\ r # obj[p].id /\ a <= 0) =>
              /\ ret'[p] = Result(FALSE, "Transfer amount must be positive", 0)
              /\ pc'[p] = "idle"
              /\ UNCHANGED store]_vars

C10_Witness ==
    \E p \in Procs :
        /\ ret[p] = Result(FALSE, "Transfer amount must be positive", 0)
        /\ amt[p] = 0
        /\ rcv[p] \in Accts

\* the case of C11 for a call transfer_money(obj[p], r, a): the caller's
\* object is what the store holds, the sender is active, a is positive and
\* the receiver is another account
C11_Case(p, r, a) ==
    /\ obj[p] # None
    /\ SavedRow(obj[p]) = accounts[obj[p].id]
    /\ obj[p].is_active
    /\ a > 0
    /\ r # obj[p].id

\* C11: a transfer is refused for insufficient balance exactly when the
\* amount exceeds the sender's balance. Before the lock: a > balance is
\* refused with the insufficient-balance error, no transaction and an
\* unchanged store, and that error is given for no a <= balance. Under the
\* lock: a > balance is refused the same way, and a <= balance (a = balance
\* included, which leaves the sender at 0) is debited in full.
C11_InsufficientExactlyAbove ==
    [][\A p \in AllProcs :
          /\ \A r \in Accts, a \in Amounts :
                (Validate(p, r, a) /\ C11_Case(p, r, a)) =>
                    /\ (a > accounts[obj[p].id].balance) =>
                          /\ ret'[p] = Result(FALSE, "Insufficient balance", 0)
                          /\ pc'[p] = "idle"
                          /\ UNCHANGED store
                    /\ (ret'[p].message = "Insufficient balance") =>
                          a > accounts[obj[p].id].balance
          /\ Returns(p) =>
                LET s == obj[p].id
                IN IF amt[p] > accounts[s].balance
                   THEN /\ ret'[p] = Result(FALSE, "Insufficient balance", 0)
                        /\ UNCHANGED store
                   ELSE /\ ret'[p].ok
                        /\ accounts'[s].balance = accounts[s].balance - amt[p]
                        /\ (amt[p] = accounts[s].balance) => accounts'[s].balance = 0]_vars

\* a transfer of the whole balance completed and left the sender at 0, and
\* a later one was refused for insufficient balance
C11_Witness ==
    /\ accounts[X].balance = 0
    /\ \E i \in Completed : /\ txns[i].amount = init[X].balance
                            /\ txns[i].sender_balance_after = Some(0)
    /\ \E p \in ConcProcs : ret[p] = Result(FALSE, "Insufficient balance", 0)

\* C12: a transfer whose receiver is deactivated (is_active False in the
\* store when the transfer runs under the lock) is refused: it does not
\* succeed and the receiver's balance is not credited.
C12_InactiveReceiverRefused ==
    [][\A p \in AllProcs :
          (Returns(p) /\ ~accounts[rcv[p]].is_active) =>
              /\ ~ret'[p].ok
              /\ accounts'[rcv[p]].balance = accounts[rcv[p]].balance
              /\ \A i \in 1..Len(txns') :
                    i > Len(txns) => txns'[i].status # "completed"]_vars

\* C13: for a sender object that is not active, can_transfer answers
\* "Account is not active" for every amount, balance and daily total, and
\* transfer_money with that sender fails, returns no transaction and leaves
\* every balance, the transaction records and the audit log as they were.
C13_InactiveSenderRefused ==
    [][\A p \in AllProcs, r \in Accts, a \in Amounts :
          (Validate(p, r, a) /\ ~obj[p].is_active) =>
              /\ \A b \in 0..(2 * MaxBal), t \in 0..(2 * MaxBal), c \in Amounts :
                    can_transfer([obj[p] EXCEPT !.balance = b], c, t) = "Account is not active"
              /\ (r # obj[p].id /\ a > 0) =>
                    ret'[p] = Result(FALSE, "Account is not active", 0)
              /\ ~ret'[p].ok
              /\ ret'[p].txn = 0
              /\ pc'[p] = "idle"
              /\ UNCHANGED store]_vars

\* a transfer of a covered, positive amount from a deactivated account to
\* another account was refused
C13_Witness ==
    \E p \in Procs :
        /\ ret[p] = Result(FALSE, "Account is not active", 0)
        /\ amt[p] > 0
        /\ \E a \in Accts : /\ a # rcv[p]
                            /\ ~accounts[a].is_active
                            /\ accounts[a].balance >= amt[p]
        /\ txns = <<>>

\* the step in which caller p's transfer_money call is turned away by the
\* validation of lines 36-45
RejectedBeforeLock(p) ==
    /\ pc[p] = "idle"
    /\ \E r \in Accts, a \in Amounts : Validate(p, r, a)
    /\ pc'[p] = "idle"

\* the step in which caller p's transfer_money call is turned away by the
\* balance re-check under the lock, line 52
RejectedUnderLock(p) ==
    /\ Returns(p)
    /\ LockedBalanceTooLow(accounts[obj[p].id].balance, amt[p])

\* C14: a transfer_money call refused by a validation check (same account,
\* non-positive amount, inactive account, insufficient balance, daily limit,
\* or the balance re-check under the lock) leaves the store as it was: no
\* balance changes, no Transaction record and no audit entry is added.
C14_RejectionChangesNothing ==
    [][\A p \in AllProcs :
          (RejectedBeforeLock(p) \/ RejectedUnderLock(p)) =>
              /\ ~ret'[p].ok
              /\ ret'[p].txn = 0
              /\ accounts' = accounts
              /\ txns' = txns
              /\ audit' = audit]_vars

\* a call that passed the validation was refused by the re-check under the
\* lock, after another caller's transfer had lowered the balance, and the
\* store holds that other transfer only
C14_Witness ==
    \E p \in Procs :
        /\ ret[p] = Result(FALSE, "Insufficient balance", 0)
        /\ amt[p] > 0
        /\ \A a \in Accts : a # rcv[p] => init[a].balance >= amt[p]
        /\ Len(txns) = 1
        /\ txns[1].status = "completed"
        /\ Len(audit) = 1

\* C15: the stored status of a transaction only ever changes from pending
\* to completed, failed or cancelled; a stored completed, failed or
\* cancelled status never changes again, and no record disappears, under
\* any interleaving of transfer_money and cancel_transaction.
C15_StatusOnlyLeavesPending ==
    [][/\ Len(txns') >= Len(txns)
       /\ \A i \in 1..Len(txns) :
             txns'[i].status # txns[i].status =>
                 /\ txns[i].status = "pending"
                 /\ txns'[i].status \in {"completed", "failed", "cancelled"}]_vars

\* a stored pending transaction, left behind by a failed transfer, was
\* cancelled
C15_Witness ==
    /\ \E i \in 1..Len(txns) : txns[i].status = "cancelled"
    /\ \E p \in Procs : ret[p] = Result(TRUE, "Transaction cancelled successfully", 0)

\* C16: cancel_transaction on a transaction object whose status is
\* completed, failed or cancelled returns failure (it does not raise) and
\* leaves every stored transaction, its status and failure reason included,
\* and every balance unchanged.
C16_CancelNonPendingIsNoOp ==
    [][\A p \in AllProcs, reason \in Reasons, save_fails \in BOOLEAN :
          (/\ cancel_transaction(p, reason, save_fails)
           /\ tobj[p].row.status \in {"completed", "failed", "cancelled"}) =>
              /\ ret'[p] = Result(FALSE, "Only pending transactions can be cancelled", 0)
              /\ txns' = txns
              /\ accounts' = accounts]_vars

\* the cancellation of a completed or failed transaction was refused
C16_Witness ==
    \E p \in Procs :
        /\ ret[p] = Result(FALSE, "Only pending transactions can be cancelled", 0)
        /\ Len(txns) = 1
        /\ txns[1].status \in {"completed", "failed"}

\* C17: when a save fails during transfer_money after the Transaction
\* record was created (the call leaves a new record that is not completed),
\* the stored record has status failed and a non-empty failure reason, and
\* the call reports failure.
C17_FailedTransferStoredFailed ==
    [][\A p \in AllProcs :
          (/\ Returns(p)
           /\ Len(txns') = Len(txns) + 1
           /\ txns'[Len(txns')].status # "completed") =>
              /\ txns'[Len(txns')].status = "failed"
              /\ txns'[Len(txns')].failure_reason # ""
              /\ ~ret'[p].ok]_vars

\* C18: transfer_money returns (success, message, transaction). Success is
\* returned only with a transaction that the store then holds completed,
\* for this sender, receiver and amount, with the sender's balance debited
\* and the receiver's credited; every failure returns no transaction; a
\* message is returned in both cases.
C18_ReturnTuple ==
    [][\A p \in AllProcs :
          (RejectedBeforeLock(p) \/ Returns(p)) =>
              /\ ret'[p].message # ""
              /\ IF ret'[p].ok
                 THEN LET t == ret'[p].txn
                          s == obj[p].id
                          r == rcv[p]
                      IN /\ t \in 1..Len(txns')
                         /\ txns'[t].status = "completed"
                         /\ txns'[t].sender = s
                         /\ txns'[t].receiver = r
                         /\ txns'[t].amount = amt[p]
                         /\ accounts'[s].balance = accounts[s].balance - amt[p]
                         /\ accounts'[r].balance = accounts[r].balance + amt[p]
                 ELSE ret'[p].txn = 0]_vars

\* one call returned success with a stored completed transaction, another
\* one returned a failure without a transaction
C18_Witness ==
    \E p, q \in Procs :
        /\ ret[p].ok
        /\ ret[p].txn \in 1..Len(txns)
        /\ txns[ret[p].txn].status = "completed"
        /\ ret[q] = Result(FALSE, "Transfer failed", 0)

\* C19: every completed transaction has sender_balance_after =
\* sender_balance_before - amount and receiver_balance_after =
\* receiver_balance_before + amount; the before-snapshots are the balances
\* the store held when the transfer ran under the lock, the after-snapshots
\* the balances the transfer stored.
C19_SnapshotsConsistent ==
    [][/\ \A i \in 1..Len(txns') :
             txns'[i].status = "completed" =>
                 /\ txns'[i].sender_balance_after =
                        Some(txns'[i].sender_balance_before[1] - txns'[i].amount)
                 /\ txns'[i].receiver_balance_after =
                        Some(txns'[i].receiver_balance_before[1] + txns'[i].amount)
       /\ \A p \in AllProcs :
             (/\ Returns(p)
              /\ Len(txns') = Len(txns) + 1
              /\ txns'[Len(txns')].status = "completed") =>
                 LET t == txns'[Len(txns')]
                 IN /\ t.sender_balance_before = Some(accounts[t.sender].balance)
                    /\ t.receiver_balance_before = Some(accounts[t.receiver].balance)
                    /\ t.sender_balance_after = Some(accounts'[t.sender].balance)
                    /\ t.receiver_balance_after = Some(accounts'[t.receiver].balance)]_vars

\* two completed transfers from the same sender: the second one's
\* before-snapshot is the first one's after-snapshot
C19_Witness ==
    /\ Len(txns) = 2
    /\ txns[1].status = "completed"
    /\ txns[2].status = "completed"
    /\ txns[1].sender = txns[2].sender
    /\ txns[2].sender_balance_before = txns[1].sender_balance_after
    /\ txns[2].sender_balance_after = Some(accounts[txns[2].sender].balance)

\* C20: log_action never raises: when recording fails it returns None and
\* writes nothing. A failing audit record during transfer_money does not
\* abort the transfer: success is returned, both balances are updated and
\* the transaction is stored completed; deactivate_account and
\* update_daily_limit report success as well.
C20_AuditFailureSwallowed ==
    [][\A p \in AllProcs :
          /\ \A handler_fails \in BOOLEAN, random_part \in RandomParts(txns, day) :
                (/\ Execute(p, random_part, "audit", handler_fails)
                 /\ ~UniqueViolation(TransactionId(day, random_part), txns)
                 /\ ~LockedBalanceTooLow(accounts[obj[p].id].balance, amt[p])) =>
                    LET s == obj[p].id
                        r == rcv[p]
                        entry == AuditRow("transaction_completed", Len(txns) + 1, 0)
                    IN /\ ~log_action(audit, entry, TRUE).raised
                       /\ log_action(audit, entry, TRUE).rows = audit
                       /\ ret'[p] = Result(TRUE, "Transfer successful", Len(txns'))
                       /\ Len(txns') = Len(txns) + 1
                       /\ txns'[Len(txns')].status = "completed"
                       /\ accounts'[s].balance = accounts[s].balance - amt[p]
                       /\ accounts'[r].balance = accounts[r].balance + amt[p]
                       /\ audit' = audit
          /\ (\/ deactivate_account(p, "audit")
              \/ \E l \in Limits : update_daily_limit(p, l, "audit")) =>
                /\ ret'[p].ok
                /\ audit' = audit]_vars

\* a transfer was reported successful and is stored completed although no
\* audit entry was written
C20_Witness ==
    \E p \in Procs :
        /\ ret[p] = Result(TRUE, "Transfer successful", Len(txns))
        /\ Len(txns) = 1
        /\ txns[1].status = "completed"
        /\ accounts[txns[1].receiver].balance = init[txns[1].receiver].balance + txns[1].amount
        /\ audit = <<>>

\* C21: stored balances are changed by transfer_money only: a step of
\* deactivate_account, update_daily_limit or cancel_transaction leaves every
\* stored balance as it was, also when its account object was read before
\* another caller's transfer on that account committed.
C21_OnlyTransfersChangeBalances ==
    [][\A p \in AllProcs :
          (\/ \E fault \in AccountFaults : deactivate_account(p, fault)
           \/ \E new_limit \in Limits, fault \in AccountFaults :
                 update_daily_limit(p, new_limit, fault)
           \/ \E reason \in Reasons, save_fails \in BOOLEAN :
                 cancel_transaction(p, reason, save_fails)) =>
              \A a \in Accts : accounts'[a].balance = accounts[a].balance]_vars

\* C23: every stored Transaction record carries a transaction id, made of
\* its creation date and a random part and given at its first save; the
\* store accepts a new record only with an id that no stored record carries,
\* so in every reachable state the stored ids are pairwise distinct.
C23_TransactionIdsDistinct ==
    /\ \A i \in 1..Len(txns) :
          /\ txns[i].transaction_id.date = txns[i].created_at
          /\ txns[i].transaction_id.random_part >= 1
    /\ \A i, j \in 1..Len(txns) :
          i # j => txns[i].transaction_id # txns[j].transaction_id

\* two records created on the same day are stored, one completed
C23_Witness ==
    /\ Len(txns) = 2
    /\ txns[1].created_at = txns[2].created_at
    /\ txns[1].transaction_id.date = txns[2].transaction_id.date
    /\ txns[1].status = "completed"

\* C22: account numbers generated before any of them is persisted are
\* pairwise distinct, and none equals an account number of the store.
C22_GeneratedNumbersDistinct ==
    /\ \A i, j \in 1..Len(generated) : i # j => generated[i] # generated[j]
    /\ \A i \in 1..Len(generated) : ~AccountNumberExists(generated[i])

\* the account object a caller gets by reading account a from the store
AccountObject(a) == [id |-> a, balance |-> accounts[a].balance,
                     is_active |-> accounts[a].is_active,
                     daily_transfer_limit |-> accounts[a].daily_transfer_limit]

\* C24: for every account and optional bounds get_account_statement returns
\* the completed transactions of the account (as sender or receiver) created
\* inside the inclusive window, the sums of their amounts on each side,
\* net_change = received_total - sent_total, opening_balance = balance -
\* net_change and closing_balance = balance; pending, failed and cancelled
\* transactions do not contribute.
C24_StatementTotals ==
    \A a \in Accts, date_from \in DateBounds, date_to \in DateBounds :
        LET st == get_account_statement(AccountObject(a), date_from, date_to)
            window == {i \in 1..Len(txns) :
                          /\ txns[i].status = "completed"
                          /\ a \in {txns[i].sender, txns[i].receiver}
                          /\ date_from # Null => txns[i].created_at >= date_from[1]
                          /\ date_to # Null => txns[i].created_at <= date_to[1]}
            sent == SumAmount(txns, {i \in window : txns[i].sender = a})
            received == SumAmount(txns, {i \in window : txns[i].receiver = a})
        IN /\ st.raised = ""
           /\ st.transactions = window
           /\ st.sent_total = sent
           /\ st.received_total = received
           /\ st.net_change = received - sent
           /\ st.opening_balance = accounts[a].balance - (received - sent)
           /\ st.closing_balance = accounts[a].balance

\* C25: lock acquisition in transfer_money has a bounded wait, so every
\* transfer_money call that has passed validation eventually returns (with
\* a lock-timeout error when it cannot obtain both locks).
C25_EveryCallReturns ==
    \A p \in Procs : (pc[p] # "idle") ~> (pc[p] = "idle")

\* C26: an amount with more than 2 fractional digits (not a whole number
\* of cents) is refused before anything is written, and a successful
\* transfer stores the requested amount and moves both balances by exactly
\* that amount, all of them whole cents.
C26_NoSilentRounding ==
    [][\A p \in AllProcs :
          /\ \A r \in Accts, amount \in SubCentAmounts :
                (Validate(p, r, amount) /\ amount % Scale # 0) =>
                    /\ ~ret'[p].ok
                    /\ pc'[p] = "idle"
                    /\ UNCHANGED store
          /\ (Returns(p) /\ ret'[p].ok) =>
                LET s == obj[p].id
                    r == rcv[p]
                    t == txns'[Len(txns')]
                IN /\ t.amount = amt[p]
                   /\ t.amount % Scale = 0
                   /\ accounts'[s].balance = accounts[s].balance - amt[p]
                   /\ accounts'[r].balance = accounts[r].balance + amt[p]
                   /\ t.sender_balance_after = Some(accounts[s].balance - amt[p])
                   /\ t.receiver_balance_after = Some(accounts[r].balance + amt[p])]_vars

\* the error a refusal message stands for
ErrorKind(message) ==
    CASE message = "Cannot transfer money to the same account" -> "same_account"
      [] message = "Transfer amount must be positive" -> "amount"
      [] message = "Account is not active" -> "sender_inactive"
      [] message = "Insufficient balance" -> "balance"
      [] message = "Daily transfer limit exceeded" -> "daily_limit"
      [] OTHER -> "other"

\* the earliest precondition, in the order of C27, that a transfer of a
\* from the stored account s to the stored account r violates
EarliestViolation(s, r, a) ==
    IF s = r THEN "same_account"
    ELSE IF a <= 0 THEN "amount"
    ELSE IF ~accounts[s].is_active THEN "sender_inactive"
    ELSE IF ~accounts[r].is_active THEN "receiver_inactive"
    ELSE IF accounts[s].balance < a THEN "balance"
    ELSE IF get_daily_transfer_total(s) + a > accounts[s].daily_transfer_limit
         THEN "daily_limit"
    ELSE "none"

\* C27: a transfer request that violates several preconditions is refused
\* with the error of the earliest violated one in the order same account,
\* non-positive amount, sender inactive, receiver inactive, insufficient
\* balance, daily limit (for a caller's object that is what the store holds).
C27_EarliestErrorReturned ==
    [][\A p \in AllProcs, r \in Accts, a \in Amounts :
          (Validate(p, r, a) /\ SavedRow(obj[p]) = accounts[obj[p].id]) =>
              LET expected == EarliestViolation(obj[p].id, r, a)
              IN IF expected = "none"
                 THEN pc'[p] = "lock_sender"
                 ELSE /\ pc'[p] = "idle"
                      /\ ~ret'[p].ok
                      /\ ErrorKind(ret'[p].message) = expected]_vars

\* the stored state of sender s allows a transfer of a: s is active, its
\* balance covers a and its completed same-day total plus a is within its
\* daily limit
StoredStateAllows(s, a) ==
    /\ accounts[s].is_active
    /\ accounts[s].balance >= a
    /\ get_daily_transfer_total(s) + a <= accounts[s].daily_transfer_limit

\* C28: whether transfer_money accepts or refuses depends on the stored
\* state only, not on the caller's sender object: a transfer between two
\* accounts of a positive amount that the stored state allows is not turned
\* away by the validation, and a transfer that the stored state at lock
\* time does not allow does not succeed.
C28_DecisionFromStoredState ==
    [][\A p \in AllProcs :
          /\ \A r \in Accts, a \in Amounts :
                (/\ Validate(p, r, a)
                 /\ r # obj[p].id
                 /\ a > 0
                 /\ StoredStateAllows(obj[p].id, a)) => pc'[p] = "lock_sender"
          /\ (Returns(p) /\ ~StoredStateAllows(obj[p].id, amt[p])) => ~ret'[p].ok]_vars

\* C29: in every reachable state a stored transaction has a completion
\* timestamp and after-balance snapshots exactly when its status is
\* completed; failed, cancelled and pending records have none.
C29_CompletedAtOnlyWhenCompleted ==
    \A i \in 1..Len(txns) :
        /\ (txns[i].completed_at # Null) <=> (txns[i].status = "completed")
        /\ (txns[i].sender_balance_after # Null) <=> (txns[i].status = "completed")
        /\ (txns[i].receiver_balance_after # Null) <=> (txns[i].status = "completed")

\* C30: once the transfer_money call that created it has returned, a stored
\* Transaction record is completed or failed; no committed record is left
\* pending, also when saving the failed status fails.
C30_NoCommittedPending ==
    \A i \in 1..Len(txns) : txns[i].status # "pending"

\* the audit entries of the given kind that reference stored transaction i
AuditEntriesOf(kind, i) ==
    {k \in 1..Len(audit) :
        audit[k].action = kind /\ audit[k].related_transaction = i}

\* C31: a transfer that ends in status failed has a transaction_failed audit
\* entry referencing its transaction: in every reachable state each stored
\* transaction with status failed is referenced by such an entry.
C31_FailedTransferAudited ==
    \A i \in 1..Len(txns) :
        txns[i].status = "failed" => AuditEntriesOf("transaction_failed", i) # {}

\* C32: the audit log is append-only: every step of every operation
\* (transfer_money on success or failure, cancel_transaction,
\* deactivate_account, update_daily_limit and the log_action calls they make)
\* leaves the audit entries that exist in place and unchanged, so the log
\* after the step starts with the log before it.
C32_AuditAppendOnly ==
    [][/\ Len(audit') >= Len(audit)
       /\ SubSeq(audit', 1, Len(audit)) = audit]_vars

\* a transfer and an account update have each appended their entry
C32_Witness ==
    /\ Len(audit) = 2
    /\ audit[1].action = "transaction_completed"
    /\ audit[2].action = "account_updated"

\* the stored transactions that account a sent
SentBy(a) == {i \in 1..Len(txns) : txns[i].sender = a}

\* C33: get_daily_transfer_total of an account is the sum of the amounts it
\* sent, less the amounts of its pending, failed and cancelled transactions
\* and less the amounts of its completed transactions created before the
\* start of the current day; transactions it received count for nothing.
C33_DailyTotalCountsCompletedToday ==
    \A a \in Accts :
        get_daily_transfer_total(a) =
            SumAmount(txns, SentBy(a))
            - SumAmount(txns, {i \in SentBy(a) :
                                  txns[i].status \in {"pending", "failed", "cancelled"}})
            - SumAmount(txns, {i \in SentBy(a) :
                                  txns[i].status = "completed" /\ txns[i].created_at < day})

\* an account sent a completed transfer on an earlier day and a transfer that
\* was not completed today, and its daily total is zero
C33_Witness ==
    \E a \in Accts :
        /\ \E i \in SentBy(a) : txns[i].status = "completed" /\ txns[i].created_at < day
        /\ \E i \in SentBy(a) : txns[i].status # "completed" /\ txns[i].created_at = day
        /\ get_daily_transfer_total(a) = 0

\* the completed transactions that account a received
CompletedReceivedBy(a) == {i \in Completed : txns[i].receiver = a}

\* the completed transactions that account a sent
CompletedSentBy(a) == {i \in Completed : txns[i].sender = a}

\* C34: in every reachable state the stored balance of every account is the
\* balance it was created with, plus the amounts of the completed
\* transactions it received, minus the amounts of the completed transactions
\* it sent (the opening balance of a full-history statement is the initial
\* balance).
C34_BalanceMatchesHistory ==
    \A a \in Accts :
        accounts[a].balance =
            init[a].balance + SumAmount(txns, CompletedReceivedBy(a))
                            - SumAmount(txns, CompletedSentBy(a))

\* C35: the generate-and-check loop of generate_account_number is bounded by
\* a maximum retry count: a call has returned or failed by the time it has
\* drawn that many colliding candidates, so the number of colliding
\* candidates of a running call never exceeds the count.
C35_RetriesBounded == candidates <= RetryLimit

\* the stored transaction that caller p's in-memory transaction object stands
\* for has the given status
StoredStatusIs(p, status) ==
    /\ tobj[p] # None
    /\ txns[tobj[p].id].status = status

\* the step changes no account and no stored transaction but number i
OnlyTransactionChanges(i) ==
    /\ accounts' = accounts
    /\ Len(txns') = Len(txns)
    /\ \A j \in 1..Len(txns) : j # i => txns'[j] = txns[j]

\* C36 as stated: every cancel_transaction call on a transaction whose stored
\* status is pending stores it cancelled with the given reason and reports
\* success, and changes no balance and no other transaction.
C36_CancelPendingAlwaysCancels ==
    [][\A p \in AllProcs, reason \in Reasons, save_fails \in BOOLEAN :
          (cancel_transaction(p, reason, save_fails) /\ StoredStatusIs(p, "pending")) =>
              /\ txns'[tobj[p].id].status = "cancelled"
              /\ txns'[tobj[p].id].failure_reason = reason
              /\ ret'[p].ok
              /\ OnlyTransactionChanges(tobj[p].id)]_vars

\* C36: a cancel_transaction call on a transaction whose stored status is
\* pending, when its save succeeds, stores it cancelled with the given reason
\* and reports success, and changes no balance and no other transaction; when
\* its save fails it reports failure and changes nothing; and no call
\* cancels a transaction whose stored status is completed.
C36_CancelPendingCancelsWhenSaved ==
    [][\A p \in AllProcs, reason \in Reasons, save_fails \in BOOLEAN :
          /\ (cancel_transaction(p, reason, save_fails) /\ StoredStatusIs(p, "pending")) =>
                IF save_fails
                THEN /\ ~ret'[p].ok
                     /\ txns' = txns
                     /\ accounts' = accounts
                ELSE /\ txns'[tobj[p].id].status = "cancelled"
                     /\ txns'[tobj[p].id].failure_reason = reason
                     /\ ret'[p].ok
                     /\ OnlyTransactionChanges(tobj[p].id)
          /\ (cancel_transaction(p, reason, save_fails) /\ StoredStatusIs(p, "completed")) =>
                /\ ~ret'[p].ok
                /\ txns' = txns]_vars

\* a pending transaction has been cancelled with a reason and the call has
\* reported success
C36_Witness ==
    \E p \in AllProcs, i \in 1..Len(txns) :
        /\ txns[i].status = "cancelled"
        /\ txns[i].failure_reason = "requested"
        /\ ret[p] = Result(TRUE, "Transaction cancelled successfully", 0)

\* a step of caller p's transfer_money call other than the one that leaves
\* the locked section
TransferStepBeforeReturn(p) ==
    \/ RejectedBeforeLock(p)
    \/ pc[p] = "idle" /\ pc'[p] = "lock_sender"
    \/ pc[p] = "lock_sender" /\ pc'[p] = "lock_receiver"

\* C37: a transfer_money call changes only the balances of its own sender
\* and receiver: its steps before the locked section change no account, and
\* the step that leaves the locked section keeps the row of every other
\* account and the active flag and daily transfer limit of every account as
\* they are stored at that moment, also when a deactivation or limit update
\* of the sender committed after the caller read its sender object.
C37_TransferChangesOnlyOwnBalances ==
    [][\A p \in AllProcs :
          /\ TransferStepBeforeReturn(p) => accounts' = accounts
          /\ Returns(p) =>
                \A a \in Accts :
                    /\ a \notin {obj[p].id, rcv[p]} => accounts'[a] = accounts[a]
                    /\ accounts'[a].is_active = accounts[a].is_active
                    /\ accounts'[a].daily_transfer_limit = accounts[a].daily_transfer_limit]_vars

\* a deactivation of the sender was committed and logged before the transfer
\* of a caller that had read the sender as active completed; the sender is
\* stored inactive and debited
C37_Witness ==
    \E i \in Completed :
        /\ Len(audit) = 2
        /\ audit[1] = AuditRow("account_updated", 0, txns[i].sender)
        /\ audit[2] = AuditRow("transaction_completed", i, 0)
        /\ ~accounts[txns[i].sender].is_active
        /\ accounts[txns[i].sender].balance = init[txns[i].sender].balance - txns[i].amount

\* the completed transactions account a takes part in, as sender or receiver
CompletedOf(a) == {i \in Completed : a \in {txns[i].sender, txns[i].receiver}}

\* the balance snapshots recorded for account a in stored transaction i
SnapshotBefore(i, a) ==
    IF txns[i].sender = a THEN txns[i].sender_balance_before
    ELSE txns[i].receiver_balance_before

SnapshotAfter(i, a) ==
    IF txns[i].sender = a THEN txns[i].sender_balance_after
    ELSE txns[i].receiver_balance_after

\* the completed transactions of account a committed before transaction i
EarlierOf(i, a) == {j \in CompletedOf(a) : j < i}

\* the latest of a non-empty set of stored transactions
Latest(S) == CHOOSE i \in S : \A j \in S : j <= i

\* C38: for every account, in commit order of its completed transactions,
\* the balance-before snapshot of each equals the balance-after snapshot of
\* the previous one, the first equals the balance the account was created
\* with, and the last balance-after snapshot equals the stored balance.
C38_SnapshotChain ==
    \A a \in Accts :
        /\ \A i \in CompletedOf(a) :
              SnapshotBefore(i, a) =
                  IF EarlierOf(i, a) = {} THEN Some(init[a].balance)
                  ELSE SnapshotAfter(Latest(EarlierOf(i, a)), a)
        /\ CompletedOf(a) # {} =>
              SnapshotAfter(Latest(CompletedOf(a)), a) = Some(accounts[a].balance)

\* C39: a transfer_money call that acquires its locks when its sender is
\* stored inactive does not complete, whatever the caller's in-memory copy
\* of the sender says: it reports failure and adds no completed transaction
\* for that sender.
C39_InactiveAtLockNeverCompletes ==
    [][\A p \in AllProcs :
          (Returns(p) /\ ~accounts[obj[p].id].is_active) =>
              /\ ~ret'[p].ok
              /\ \A i \in 1..Len(txns') :
                    (i > Len(txns) /\ txns'[i].sender = obj[p].id) =>
                        txns'[i].status # "completed"]_vars

=============================================================================
